---- MODULE Spec2Model ----
(***************************************************************************)
(* Joke-of-the-day worker: the admin write path (read, duplicate guard,    *)
(* conditional write), the read caches and the versioned backing document. *)
(*                                                                         *)
(* The repository holds four variants of the worker.  Exactly one is       *)
(* deployed in a run of the model (the variable "variant"):                *)
(*   A  src/src/index.js 1-435      GET/POST /v1/admin/jokes, trigram guard *)
(*   B  src/apps/embed/embed.js     GET/PUT /v1/admin/jokes, _cache         *)
(*   C  src/unnamed/part_001        GET/PUT /v1/admin/jokes, cache with sha *)
(*   D  src/unnamed/part_002 524-   GET/POST /v1/admin/jokes, cache + etag  *)
(* The backing document is a file behind the GitHub contents API: a read   *)
(* returns content and version token, a write carries a token and is       *)
(* rejected when the token is not the current one.                         *)
(*                                                                         *)
(* A text is a sequence of one-character strings; a joke is a record; the  *)
(* field "bad" of a joke holds the names of the fields that are missing    *)
(* or of the wrong type ("object": the element is not an object at all).   *)
(***************************************************************************)
EXTENDS Integers, Sequences, FiniteSets, TLC

VARIABLES
  variant,    \* which worker is deployed
  envKey,     \* env.JOTD_API_KEY ("" when not configured)
  ghContent,  \* the stored collection (parsed jokes.json)
  ghSha,      \* the store's current version token
  now,        \* Date.now(), in milliseconds
  started,    \* requests received so far
  req,        \* the requests in flight, by slot
  cache,      \* the worker's module-level read cache
  heap,       \* variant D: the arrays the cache and the requests share
  done,       \* the response sent last
  acked,      \* history: highest version whose write was answered with success
  assigned,   \* history: the <<id, text>> pairs stored at the start or by an add
  reused,     \* history: an add committed an id that had held another joke
  fnIn,       \* pure-function specifications: the input
  fnOut       \* pure-function specifications: the result

vars == <<variant, envKey, ghContent, ghSha, now, started, req, cache, heap,
          done, acked, assigned, reused, fnIn, fnOut>>

-----------------------------------------------------------------------------
(* Bounds of the model *)

NumSlots == 2
MaxStarted == 3
MaxTicks == 1
TickMs == 30000
MaxIdIn == 7
MaxIdsLen == 3
MaxGuardLen == 2
MaxTextLen == 3
MaxPool == 3
MaxDays == 2
MaxStoreLen == 2
MaxRandom == 1

(* Program constants *)

CACHE_MS == 30000
CACHE_TTL_MS == 60000
CACHE_D_MS == 10000
ThresholdNum == 82
ThresholdDen == 100
RatioNum == 85
RatioDen == 100

Slots == 1..NumSlots

-----------------------------------------------------------------------------
(* Sequences *)

RECURSIVE SeqMap(_, _)
SeqMap(F(_), s) ==
  IF s = <<>> THEN <<>> ELSE <<F(Head(s))>> \o SeqMap(F, Tail(s))

MaxOf(a, b) == IF a >= b THEN a ELSE b
MinOf(a, b) == IF a <= b THEN a ELSE b

-----------------------------------------------------------------------------
(* Characters and strings *)

\* texts are sequences of the characters "a", "b", "s", "A", "!", " " and the
\* backslash

\* String.prototype.toLowerCase, per character
LowerChar(c) == IF c = "A" THEN "a" ELSE IF c = "B" THEN "b" ELSE c

IsSpace(c) == c = " "
IsAlnum(c) == c \in {"a", "b", "s"}

\* String.prototype.trim
RECURSIVE TrimLeft(_)
TrimLeft(s) ==
  IF s # <<>> /\ IsSpace(Head(s)) THEN TrimLeft(Tail(s)) ELSE s

RECURSIVE TrimRight(_)
TrimRight(s) ==
  IF s # <<>> /\ IsSpace(s[Len(s)]) THEN TrimRight(SubSeq(s, 1, Len(s) - 1)) ELSE s

Trim(s) == TrimRight(TrimLeft(s))

\* .replace(/\s+/g, " "): every run of whitespace becomes one space
RECURSIVE CollapseSpaces(_)
CollapseSpaces(s) ==
  IF s = <<>> THEN <<>>
  ELSE IF IsSpace(Head(s))
       THEN <<" ">> \o CollapseSpaces(TrimLeft(s))
       ELSE <<Head(s)>> \o CollapseSpaces(Tail(s))

\* .replace(/[^a-z0-9\s]/g, " "): per character
PunctToSpace(c) == IF IsAlnum(c) \/ IsSpace(c) THEN c ELSE " "

\* a normalizeText that trims before it replaces
normalizeTextTrimFirst(s) ==
  CollapseSpaces(SeqMap(PunctToSpace, Trim(SeqMap(LowerChar, s))))

normalizeText(s) ==
  Trim(CollapseSpaces(SeqMap(PunctToSpace, SeqMap(LowerChar, s))))

\* .replace(/[^a-z0-9\\s]/g, " ") as written in src/unnamed/part_002: the
\* class holds a-z, 0-9 and the backslash (and "s" once more), so every other
\* character, whitespace included, becomes a space of its own
PunctToSpace2(c) == IF IsAlnum(c) \/ c = "\\" THEN c ELSE " "

RECURSIVE DropLeadingS(_)
DropLeadingS(s) ==
  IF s # <<>> /\ Head(s) = "s" THEN DropLeadingS(Tail(s)) ELSE s

\* .replace(/\\s+/g, " ") as written in src/unnamed/part_002: a backslash
\* followed by one or more "s" becomes one space
RECURSIVE ReplaceBackslashS(_)
ReplaceBackslashS(s) ==
  IF s = <<>> THEN <<>>
  ELSE IF Head(s) = "\\" /\ Len(s) >= 2 /\ s[2] = "s"
       THEN <<" ">> \o ReplaceBackslashS(DropLeadingS(Tail(s)))
       ELSE <<Head(s)>> \o ReplaceBackslashS(Tail(s))

\* normalizeText of src/unnamed/part_002
normalizeText2(s) ==
  Trim(ReplaceBackslashS(SeqMap(PunctToSpace2, SeqMap(LowerChar, s))))

\* the 3-character substrings of the string itself, without padding
trigramsUnpadded(s) ==
  {SubSeq(s, i, i + 2) : i \in 1..(Len(s) - 2)}

\* the set of 3-character substrings of the string padded with two spaces
trigrams(s) ==
  LET padded == <<" ", " ">> \o s \o <<" ", " ">>
  IN  {SubSeq(padded, i, i + 2) : i \in 1..(Len(padded) - 2)}

\* the share of a's trigrams that b has
jaccardOverFirst(a, b) ==
  <<Cardinality(trigrams(a) \cap trigrams(b)), Cardinality(trigrams(a))>>

\* jaccardTrigrams returns inter / union (0 when union is 0): kept here as the
\* pair <<numerator, denominator>>, <<0, 1>> standing for 0.
jaccardTrigrams(a, b) ==
  LET A == trigrams(a)
      B == trigrams(b)
      inter == Cardinality(A \cap B)
      union == Cardinality(A) + Cardinality(B) - inter
  IN  IF union = 0 THEN <<0, 1>> ELSE <<inter, union>>

\* p > q and p >= q on such pairs (denominators are positive)
ScoreGt(p, q) == p[1] * q[2] > q[1] * p[2]
ScoreGe(p, q) == p[1] * q[2] >= q[1] * p[2]

SIMILARITY_THRESHOLD == <<ThresholdNum, ThresholdDen>>

-----------------------------------------------------------------------------
(* Jokes *)


Joke(id, text, rating, category, active) ==
  [id |-> id, text |-> text, rating |-> rating, category |-> category,
   active |-> active, bad |-> {}]

IsObject(j) == "object" \notin j.bad
Has(j, f) == IsObject(j) /\ f \notin j.bad

\* every element a well-formed Joke
WellFormed(jokes) == \A i \in 1..Len(jokes) : jokes[i].bad = {}

Ids(jokes) == {jokes[i].id : i \in 1..Len(jokes)}

UniqueIds(jokes) ==
  \A i, k \in 1..Len(jokes) : i # k => jokes[i].id # jokes[k].id

\* Array.prototype.sort with (a, b) => Number(a.id) - Number(b.id): stable
RECURSIVE InsertById(_, _)
InsertById(j, s) ==
  IF s = <<>> THEN <<j>>
  ELSE IF s[Len(s)].id <= j.id THEN Append(s, j)
       ELSE Append(InsertById(j, SubSeq(s, 1, Len(s) - 1)), s[Len(s)])

RECURSIVE SortById(_)
SortById(s) ==
  IF s = <<>> THEN <<>>
  ELSE InsertById(s[Len(s)], SortById(SubSeq(s, 1, Len(s) - 1)))

J1 == Joke(1, <<"a", "b">>, "G", "general", TRUE)
J2 == Joke(2, <<"b", "a">>, "PG", "dad", FALSE)

InitContents == {<<>>, <<J1, J2>>}

-----------------------------------------------------------------------------
(* Requests and responses *)

NoJoke == Joke(0, <<>>, "", "", TRUE)

IdleReq ==
  [op |-> "idle", pc |-> "idle", kind |-> "ok", joke |-> NoJoke, jokes |-> <<>>,
   got |-> <<>>, sha |-> 0, readSha |-> 0, ref |-> 0, at |-> 0, etag |-> 0,
   minVer |-> 0, puts |-> 0, res |-> "none", ver |-> 0]

\* a response: the HTTP status, the "error" member of its JSON body, what the
\* store answered to the request's conditional write ("none" when it issued
\* none), the document a read returns with the version it was read at, and
\* for the history the writes the request issued and the newest version
\* acknowledged before the request started.
Response(op, status, error) ==
  [op |-> op, status |-> status, error |-> error, cause |-> "none",
   jokes |-> <<>>, ver |-> 0, minVer |-> 0, puts |-> 0]

NoResp == Response("none", 0, "")

Busy(r) == req[r].pc # "idle"

\* a request takes the lowest free slot (the slots are names of the model)
Free(r) == ~Busy(r) /\ \A q \in 1..(r - 1) : Busy(q)

\* the store's answer to a conditional write carrying token sha
StoreAccepts(sha) == sha = ghSha

\* the history of <<id, text>> pairs after the store takes content
Pairs(jokes) == {<<jokes[i].id, jokes[i].text>> : i \in 1..Len(jokes)}

-----------------------------------------------------------------------------
(* Request inputs *)

Keys == {"k1", "bad"}
EnvKeys == {"", "k1"}

\* String(rating).toUpperCase()
UpperRating(x) == IF x = "pg" THEN "PG" ELSE IF x = "g" THEN "G" ELSE x

ValidRatings == {"G", "PG", "PG-13", "R"}

AddBody(text, rating, category, active) ==
  [null |-> FALSE, text |-> text, rating |-> rating, category |-> category,
   active |-> active]

\* POST /v1/admin/jokes bodies: unparsable, blank text, bad rating, a text
\* that normalizes to J1's, a new text, and a text with the new text's trigrams
AddBodies ==
  { [AddBody(<<>>, "", "", TRUE) EXCEPT !.null = TRUE],
    AddBody(<<" ">>, "G", "", TRUE),
    AddBody(<<"a", "a", "a">>, "X", "", TRUE),
    AddBody(<<"A", "b", "!">>, "", "", TRUE),
    AddBody(<<"a", "a", "a">>, "pg", "Dad", FALSE),
    AddBody(<<"a", "a", "a", "a">>, "G", "", TRUE) }

-----------------------------------------------------------------------------
(* Variant A: src/src/index.js, POST /v1/admin/jokes *)

\* fetch, "Require auth for /v1/*": rejected only when a key is configured
AuthA(key) == ~(envKey # "" /\ key # envKey)

\* the duplicate scan of handleAdminAdd over jokes[i..]: the first exact
\* match ends it; otherwise the best score and its joke are tracked
RECURSIVE ScanA(_, _, _, _, _)
ScanA(jokes, i, normNew, bestScore, bestId) ==
  IF i > Len(jokes)
  THEN IF ScoreGe(bestScore, SIMILARITY_THRESHOLD)
       THEN [kind |-> "similar", id |-> bestId, score |-> bestScore]
       ELSE [kind |-> "novel", id |-> 0, score |-> bestScore]
  ELSE LET j == jokes[i]
       IN  IF ~Has(j, "text") \/ j.text = <<>>
           THEN ScanA(jokes, i + 1, normNew, bestScore, bestId)
           ELSE LET normOld == normalizeText(j.text)
                    score == jaccardTrigrams(normOld, normNew)
                IN  IF normOld = normNew
                    THEN [kind |-> "exact", id |-> j.id, score |-> <<1, 1>>]
                    ELSE IF ScoreGt(score, bestScore)
                         THEN ScanA(jokes, i + 1, normNew, score, j.id)
                         ELSE ScanA(jokes, i + 1, normNew, bestScore, bestId)

\* a scan that ends at the first joke scoring at or above the threshold
RECURSIVE ScanAStopAtThreshold(_, _, _)
ScanAStopAtThreshold(jokes, i, normNew) ==
  IF i > Len(jokes) THEN [kind |-> "novel", id |-> 0, score |-> <<0, 1>>]
  ELSE LET j == jokes[i]
           normOld == normalizeText(j.text)
           score == jaccardTrigrams(normOld, normNew)
       IN  IF ~Has(j, "text") \/ j.text = <<>>
           THEN ScanAStopAtThreshold(jokes, i + 1, normNew)
           ELSE IF normOld = normNew
           THEN [kind |-> "exact", id |-> j.id, score |-> <<1, 1>>]
           ELSE IF ScoreGe(score, SIMILARITY_THRESHOLD)
           THEN [kind |-> "similar", id |-> j.id, score |-> score]
           ELSE ScanAStopAtThreshold(jokes, i + 1, normNew)

classifyAStopAtThreshold(text, jokes) ==
  ScanAStopAtThreshold(jokes, 1, normalizeText(text))

classifyA(text, jokes) == ScanA(jokes, 1, normalizeText(text), <<0, 1>>, 0)

\* Number(jokes[k] && jokes[k].id ? jokes[k].id : 0)
IdOrZero(j) == IF Has(j, "id") THEN j.id ELSE 0

\* the id of the last joke of the array
LastIdA(jokes) == IF jokes = <<>> THEN 0 ELSE IdOrZero(jokes[Len(jokes)])

\* var maxId = 0; for (...) if (jid > maxId) maxId = jid;
RECURSIVE MaxIdA(_)
MaxIdA(jokes) ==
  IF jokes = <<>> THEN 0
  ELSE LET m == MaxIdA(SubSeq(jokes, 1, Len(jokes) - 1))
           jid == IdOrZero(jokes[Len(jokes)])
       IN  IF jid > m THEN jid ELSE m

\* the new joke pushed and the array sorted by id
appendA(jokes, joke) ==
  SortById(Append(jokes, [joke EXCEPT !.id = MaxIdA(jokes) + 1]))

\* the request arrives: auth, body checks, then the read is issued
AddStartA(r, key, body) ==
  /\ variant = "A"
  /\ Free(r)
  /\ started < MaxStarted
  /\ started' = started + 1
  /\ LET text == IF body.null THEN <<>> ELSE Trim(body.text)
         rating == UpperRating(IF body.rating = "" THEN "G" ELSE body.rating)
         category == IF body.category = "" THEN "general" ELSE body.category
     IN  IF ~AuthA(key)
         THEN /\ done' = Response("add", 401, "Unauthorized")
              /\ req' = req
         ELSE IF body.null
         THEN /\ done' = Response("add", 400, "Invalid JSON body")
              /\ req' = req
         ELSE IF text = <<>>
         THEN /\ done' = Response("add", 400, "text is required")
              /\ req' = req
         ELSE IF rating \notin ValidRatings
         THEN /\ done' = Response("add", 400, "Invalid rating")
              /\ req' = req
         ELSE /\ done' = NoResp
              /\ req' = [req EXCEPT ![r] =
                   [IdleReq EXCEPT !.op = "add", !.pc = "read",
                      !.joke = Joke(0, text, rating, category, body.active)]]
  /\ UNCHANGED <<variant, envKey, ghContent, ghSha, now, cache, heap, acked,
                 assigned, reused, fnIn, fnOut>>

\* githubReadJokesFile answers and handleAdminAdd runs up to its write
\* a handler that rejects exact duplicates only and writes similar jokes
AddReadAWritingSimilar(r, ok) ==
  /\ variant = "A"
  /\ req[r].op = "add" /\ req[r].pc = "read"
  /\ IF ~ok
     THEN /\ done' = Response("add", 500, "Internal error")
          /\ req' = [req EXCEPT ![r] = IdleReq]
     ELSE LET jokes == ghContent
              c == classifyA(req[r].joke.text, jokes)
          IN  IF c.kind = "exact"
              THEN /\ done' = Response("add", 409, "Exact duplicate joke already exists")
                   /\ req' = [req EXCEPT ![r] = IdleReq]
              ELSE /\ done' = NoResp
                   /\ req' = [req EXCEPT ![r] =
                        [@ EXCEPT !.pc = "put",
                           !.joke = [@ EXCEPT !.id = MaxIdA(jokes) + 1],
                           !.jokes = appendA(jokes, req[r].joke),
                           !.sha = ghSha, !.readSha = ghSha,
                           !.puts = @ + 1]]
  /\ UNCHANGED <<variant, envKey, ghContent, ghSha, now, started, cache, heap,
                 acked, assigned, reused, fnIn, fnOut>>

AddReadA(r, ok) ==
  /\ variant = "A"
  /\ req[r].op = "add" /\ req[r].pc = "read"
  /\ IF ~ok
     THEN /\ done' = Response("add", 500, "Internal error")
          /\ req' = [req EXCEPT ![r] = IdleReq]
     ELSE LET jokes == ghContent
              c == classifyA(req[r].joke.text, jokes)
          IN  IF c.kind = "exact"
              THEN /\ done' = Response("add", 409, "Exact duplicate joke already exists")
                   /\ req' = [req EXCEPT ![r] = IdleReq]
              ELSE IF c.kind = "similar"
              THEN /\ done' = Response("add", 409, "Similar joke already exists")
                   /\ req' = [req EXCEPT ![r] = IdleReq]
              ELSE /\ done' = NoResp
                   /\ req' = [req EXCEPT ![r] =
                        [@ EXCEPT !.pc = "put",
                           !.joke = [@ EXCEPT !.id = MaxIdA(jokes) + 1],
                           !.jokes = appendA(jokes, req[r].joke),
                           !.sha = ghSha, !.readSha = ghSha,
                           !.puts = @ + 1]]
  /\ UNCHANGED <<variant, envKey, ghContent, ghSha, now, started, cache, heap,
                 acked, assigned, reused, fnIn, fnOut>>

\* a handler that takes the write for done whatever the store replied
WriteReplyAIgnoringStatus(r, reply) ==
  [Response("add", 201, "") EXCEPT !.cause = reply, !.puts = req[r].puts,
     !.jokes = <<req[r].joke>>]

\* githubWriteJokesFile: what handleAdminAdd answers for the store's reply
\* ("ok", "conflict": the token was stale, "fail": transport failure)
WriteReplyA(r, reply) ==
  IF reply = "ok"
  THEN [Response("add", 201, "") EXCEPT !.cause = "ok", !.puts = req[r].puts,
          !.jokes = <<req[r].joke>>]
  ELSE [Response("add", 500, "Internal error") EXCEPT !.cause = reply,
          !.puts = req[r].puts]

\* a handler that starts its read-classify-write cycle again on a conflict
AddWriteARetrying(r, transportOk) ==
  /\ variant = "A"
  /\ req[r].op = "add" /\ req[r].pc = "put"
  /\ LET reply == IF ~transportOk THEN "fail"
                  ELSE IF StoreAccepts(req[r].sha) THEN "ok" ELSE "conflict"
     IN  /\ done' = IF reply = "conflict" THEN NoResp ELSE WriteReplyA(r, reply)
         /\ req' = [req EXCEPT ![r] =
                     IF reply = "conflict" THEN [@ EXCEPT !.pc = "read"] ELSE IdleReq]
         /\ IF reply = "ok"
            THEN /\ ghContent' = req[r].jokes
                 /\ ghSha' = ghSha + 1
                 /\ acked' = ghSha + 1
                 /\ assigned' = assigned \cup Pairs(req[r].jokes)
                 /\ reused' = reused
            ELSE UNCHANGED <<ghContent, ghSha, acked, assigned, reused>>
  /\ UNCHANGED <<variant, envKey, now, started, cache, heap, fnIn, fnOut>>

\* the store takes or rejects the write and the handler answers
AddWriteA(r, transportOk) ==
  /\ variant = "A"
  /\ req[r].op = "add" /\ req[r].pc = "put"
  /\ LET reply == IF ~transportOk THEN "fail"
                  ELSE IF StoreAccepts(req[r].sha) THEN "ok" ELSE "conflict"
     IN  /\ done' = WriteReplyA(r, reply)
         /\ IF reply = "ok"
            THEN /\ ghContent' = req[r].jokes
                 /\ ghSha' = ghSha + 1
                 /\ acked' = ghSha + 1
                 /\ assigned' = assigned \cup Pairs(req[r].jokes)
                 /\ reused' = (reused \/ \E p \in assigned :
                                 p[1] = req[r].joke.id /\ p[2] # req[r].joke.text)
            ELSE UNCHANGED <<ghContent, ghSha, acked, assigned, reused>>
  /\ req' = [req EXCEPT ![r] = IdleReq]
  /\ UNCHANGED <<variant, envKey, now, started, cache, heap, fnIn, fnOut>>

\* GET /v1/admin/jokes: handleAdminList answers what githubReadJokesFile read
ListA(key, ok) ==
  /\ variant = "A"
  /\ started < MaxStarted
  /\ started' = started + 1
  /\ done' = IF ~AuthA(key) THEN Response("list", 401, "Unauthorized")
             ELSE IF ~ok THEN Response("list", 500, "Internal error")
             ELSE [Response("list", 200, "") EXCEPT !.jokes = ghContent,
                     !.ver = ghSha, !.minVer = acked]
  /\ UNCHANGED <<variant, envKey, ghContent, ghSha, now, req, cache, heap, acked,
                 assigned, reused, fnIn, fnOut>>

NextA ==
  \/ \E r \in Slots, key \in Keys, body \in AddBodies : AddStartA(r, key, body)
  \/ \E r \in Slots, ok \in BOOLEAN : AddReadA(r, ok)
  \/ \E r \in Slots, ok \in BOOLEAN : AddWriteA(r, ok)
  \/ \E key \in Keys, ok \in BOOLEAN : ListA(key, ok)

-----------------------------------------------------------------------------
(* PUT /v1/admin/jokes bodies (variants B and C) *)

PutBody(sha, jokes) == [json |-> TRUE, array |-> TRUE, sha |-> sha, jokes |-> jokes]

BadJoke(f) == [J1 EXCEPT !.bad = {f}]

\* the collections a client submits: no array, an element that is no
\* object, an element with one field missing or mistyped, an edit of J1, two
\* jokes with one id
PutCollections ==
  { <<BadJoke("object")>>, <<BadJoke("id")>>, <<BadJoke("text")>>,
    <<BadJoke("rating")>>, <<BadJoke("category")>>, <<BadJoke("active"), J2>>,
    <<[J1 EXCEPT !.active = FALSE], J2>>,
    <<J1, [J2 EXCEPT !.id = 1]>> }

PutBodies(shas) ==
  {[PutBody(0, <<>>) EXCEPT !.json = FALSE], [PutBody(0, <<>>) EXCEPT !.array = FALSE]}
    \cup {PutBody(sha, jokes) : sha \in shas, jokes \in PutCollections}

\* the tokens a client can hold: the current one, or the one before it (before
\* the first write: none, which the store refuses for an existing file)
ClientShas == {ghSha - 1, ghSha}

Tick ==
  /\ variant \in {"B", "C", "D"}
  /\ now < MaxTicks * TickMs
  /\ now' = now + TickMs
  /\ done' = NoResp
  /\ UNCHANGED <<variant, envKey, ghContent, ghSha, started, req, cache, heap,
                 acked, assigned, reused, fnIn, fnOut>>

NoCache == [has |-> FALSE, jokes |-> <<>>, ref |-> 0, tag |-> 0, at |-> 0, ver |-> 0]

-----------------------------------------------------------------------------
(* Variant B: src/apps/embed/embed.js *)

\* requireAdmin
requireAdmin(key) == ~(envKey = "" \/ key # envKey)

\* the "basic sanity" loop of PUT /v1/admin/jokes: the first complaint, or "ok"
RECURSIVE ValidateB(_)
ValidateB(jokes) ==
  IF jokes = <<>> THEN "ok"
  ELSE LET j == Head(jokes)
       IN  IF ~IsObject(j) THEN "Each joke must be an object."
           ELSE IF ~Has(j, "id") THEN "Each joke must have numeric id."
           ELSE IF ~Has(j, "text") THEN "Each joke must have text string."
           ELSE IF ~Has(j, "category") THEN "Each joke must have category string."
           ELSE IF ~Has(j, "rating") THEN "Each joke must have rating string."
           ELSE ValidateB(Tail(jokes))

\* PUT arrives: requireAdmin, the body checks, then githubWriteFile's fetch
PutStartB(r, key, body) ==
  /\ variant = "B"
  /\ Free(r)
  /\ started < MaxStarted
  /\ started' = started + 1
  /\ IF ~requireAdmin(key)
     THEN /\ done' = Response("put", 401, "unauthorized")
          /\ req' = req
     ELSE IF ~body.json
     THEN /\ done' = Response("put", 500, "server_error")
          /\ req' = req
     ELSE IF ~body.array
     THEN /\ done' = Response("put", 400, "bad_request")
          /\ req' = req
     ELSE IF ValidateB(body.jokes) # "ok"
     THEN /\ done' = Response("put", 400, "bad_request")
          /\ req' = req
     ELSE /\ done' = NoResp
          /\ req' = [req EXCEPT ![r] =
               [IdleReq EXCEPT !.op = "put", !.pc = "put", !.jokes = body.jokes,
                  !.sha = body.sha, !.puts = 1]]
  /\ UNCHANGED <<variant, envKey, ghContent, ghSha, now, cache, heap, acked,
                 assigned, reused, fnIn, fnOut>>

\* the store takes or rejects the write; its reply travels back
PutStore(r, transportOk) ==
  /\ variant \in {"B", "C", "D"}
  /\ req[r].pc = "put"
  /\ LET reply == IF ~transportOk THEN "fail"
                  ELSE IF StoreAccepts(req[r].sha) THEN "ok" ELSE "conflict"
     IN  /\ req' = [req EXCEPT ![r] =
               [@ EXCEPT !.pc = "resp", !.res = reply,
                  !.ver = IF reply = "ok" THEN ghSha + 1 ELSE 0]]
         /\ IF reply = "ok"
            THEN /\ ghContent' = req[r].jokes
                 /\ ghSha' = ghSha + 1
            ELSE UNCHANGED <<ghContent, ghSha>>
         /\ IF reply = "ok" /\ req[r].op = "add"
            THEN /\ assigned' = assigned \cup Pairs(req[r].jokes)
                 /\ reused' = (reused \/ \E p \in assigned :
                                 p[1] = req[r].joke.id /\ p[2] # req[r].joke.text)
            ELSE UNCHANGED <<assigned, reused>>
  /\ done' = NoResp
  /\ UNCHANGED <<variant, envKey, now, started, cache, heap, acked, fnIn, fnOut>>

\* githubWriteFile after its fetch: what the PUT handler answers
WriteReplyB(r) ==
  IF req[r].res = "ok"
  THEN [Response("put", 200, "") EXCEPT !.cause = "ok", !.puts = req[r].puts,
          !.ver = req[r].ver]
  ELSE [Response("put", 500, "server_error") EXCEPT !.cause = req[r].res,
          !.puts = req[r].puts]

\* githubWriteFile after a successful write: "clear cache"
CacheAfterWriteB == NoCache

PutDoneB(r) ==
  /\ variant = "B"
  /\ req[r].op = "put" /\ req[r].pc = "resp"
  /\ done' = WriteReplyB(r)
  /\ IF req[r].res = "ok"
     THEN /\ cache' = CacheAfterWriteB
          /\ acked' = MaxOf(acked, req[r].ver)
     ELSE UNCHANGED <<cache, acked>>
  /\ req' = [req EXCEPT ![r] = IdleReq]
  /\ UNCHANGED <<variant, envKey, ghContent, ghSha, now, started, heap,
                 assigned, reused, fnIn, fnOut>>

\* loadJokesFromGitHub: "tiny cache"
CacheFreshB == cache.has /\ now - cache.at < CACHE_MS

\* a public read arrives: loadJokesFromGitHub answers from the cache or fetches
ReadStartB(r) ==
  /\ variant = "B"
  /\ Free(r)
  /\ started < MaxStarted
  /\ started' = started + 1
  /\ IF CacheFreshB
     THEN /\ done' = [Response("read", 200, "") EXCEPT !.jokes = cache.jokes,
                        !.ver = cache.ver, !.minVer = acked]
          /\ req' = req
     ELSE /\ done' = NoResp
          /\ req' = [req EXCEPT ![r] =
               [IdleReq EXCEPT !.op = "read", !.pc = "fetch", !.at = now,
                  !.minVer = acked]]
  /\ UNCHANGED <<variant, envKey, ghContent, ghSha, now, cache, heap, acked,
                 assigned, reused, fnIn, fnOut>>

\* the store serves a read; its reply travels back
ReadStore(r, ok) ==
  /\ variant \in {"B", "C"}
  /\ req[r].pc = "fetch"
  /\ req' = [req EXCEPT ![r] =
       [@ EXCEPT !.pc = "got", !.res = IF ok THEN "ok" ELSE "fail",
          !.got = IF ok THEN ghContent ELSE <<>>,
          !.ver = IF ok THEN ghSha ELSE 0]]
  /\ done' = NoResp
  /\ UNCHANGED <<variant, envKey, ghContent, ghSha, now, started, cache, heap,
                 acked, assigned, reused, fnIn, fnOut>>

\* loadJokesFromGitHub after githubReadFile: parse, fill the cache, return
ReadDoneB(r) ==
  /\ variant = "B"
  /\ req[r].op = "read" /\ req[r].pc = "got"
  /\ IF req[r].res # "ok"
     THEN /\ done' = Response("read", 500, "server_error")
          /\ cache' = cache
     ELSE /\ done' = [Response("read", 200, "") EXCEPT !.jokes = req[r].got,
                        !.ver = req[r].ver, !.minVer = req[r].minVer]
          /\ cache' = [NoCache EXCEPT !.has = TRUE, !.jokes = req[r].got,
                         !.at = req[r].at, !.ver = req[r].ver]
  /\ req' = [req EXCEPT ![r] = IdleReq]
  /\ UNCHANGED <<variant, envKey, ghContent, ghSha, now, started, heap, acked,
                 assigned, reused, fnIn, fnOut>>

\* GET /v1/admin/jokes: githubReadFile, not the cache
ListB(key, ok) ==
  /\ variant = "B"
  /\ started < MaxStarted
  /\ started' = started + 1
  /\ done' = IF ~requireAdmin(key) THEN Response("list", 401, "unauthorized")
             ELSE IF ~ok THEN Response("list", 500, "server_error")
             ELSE [Response("list", 200, "") EXCEPT !.jokes = ghContent,
                     !.ver = ghSha, !.minVer = acked]
  /\ UNCHANGED <<variant, envKey, ghContent, ghSha, now, req, cache, heap, acked,
                 assigned, reused, fnIn, fnOut>>

\* the admin write path of variant B
NextBWrite ==
  \/ \E r \in Slots, key \in Keys, body \in PutBodies(ClientShas) : PutStartB(r, key, body)
  \/ \E r \in Slots, ok \in BOOLEAN : PutStore(r, ok)
  \/ \E r \in Slots : PutDoneB(r)
  \/ \E key \in Keys, ok \in BOOLEAN : ListB(key, ok)

NextB ==
  \/ NextBWrite
  \/ \E r \in Slots : ReadStartB(r)
  \/ \E r \in Slots, ok \in BOOLEAN : ReadStore(r, ok)
  \/ \E r \in Slots : ReadDoneB(r)
  \/ Tick

-----------------------------------------------------------------------------
(* Variant C: src/unnamed/part_001 *)

\* requireAdminAuth
requireAdminAuth(key) == envKey # "" /\ key = envKey

\* the "basic validation" loop of PUT /v1/admin/jokes: the first complaint, or "ok"
RECURSIVE ValidateC(_)
ValidateC(jokes) ==
  IF jokes = <<>> THEN "ok"
  ELSE LET j == Head(jokes)
       IN  IF ~IsObject(j) THEN "Each joke must be an object"
           ELSE IF ~Has(j, "id") THEN "Each joke must have numeric id"
           ELSE IF ~Has(j, "text") THEN "Each joke must have text string"
           ELSE IF ~Has(j, "rating") THEN "Each joke must have rating string"
           ELSE IF ~Has(j, "category") THEN "Each joke must have category string"
           ELSE IF ~Has(j, "active") THEN "Each joke must have active boolean"
           ELSE ValidateC(Tail(jokes))

\* the PUT handler's body checks: the complaint, or "ok"
CheckBodyC(kind, jokes) ==
  IF kind = "badjson" THEN "Invalid JSON body"
  ELSE IF kind = "notarray" THEN "Body must be an array OR { jokes: [...] }"
  ELSE ValidateC(jokes)

BodyKind(body) == IF ~body.json THEN "badjson" ELSE IF ~body.array THEN "notarray" ELSE "ok"

\* readJokesFromGitHub: the cache answers
CacheFreshC == cache.has /\ now - cache.at < CACHE_TTL_MS

\* readJokesFromGitHub after its fetch: cache.jokes, cache.sha, cache.fetchedAt
CacheAfterReadC(r) ==
  [NoCache EXCEPT !.has = TRUE, !.jokes = req[r].got, !.tag = req[r].ver,
     !.ver = req[r].ver, !.at = req[r].at]

\* the PUT handler from the body checks to writeJokesToGitHub's fetch
PutCheckC(r, kind, jokes, sha) ==
  IF CheckBodyC(kind, jokes) # "ok"
  THEN /\ done' = Response("put", 400, CheckBodyC(kind, jokes))
       /\ req' = [req EXCEPT ![r] = IdleReq]
  ELSE /\ done' = NoResp
       /\ req' = [req EXCEPT ![r] =
            [IdleReq EXCEPT !.op = "put", !.pc = "put", !.jokes = jokes,
               !.sha = sha, !.readSha = sha, !.puts = 1]]

\* PUT arrives: requireAdminAuth, then readJokesFromGitHub for the sha
PutStartC(r, key, body) ==
  /\ variant = "C"
  /\ Free(r)
  /\ started < MaxStarted
  /\ started' = started + 1
  /\ IF ~requireAdminAuth(key)
     THEN /\ done' = Response("put", 401, "unauthorized")
          /\ req' = req
     ELSE IF CacheFreshC
     THEN PutCheckC(r, BodyKind(body), body.jokes, cache.tag)
     ELSE /\ done' = NoResp
          /\ req' = [req EXCEPT ![r] =
               [IdleReq EXCEPT !.op = "put", !.pc = "fetch", !.kind = BodyKind(body),
                  !.jokes = body.jokes, !.at = now]]
  /\ UNCHANGED <<variant, envKey, ghContent, ghSha, now, cache, heap, acked,
                 assigned, reused, fnIn, fnOut>>

\* readJokesFromGitHub returns to the PUT handler
PutGotC(r) ==
  /\ variant = "C"
  /\ req[r].op = "put" /\ req[r].pc = "got"
  /\ IF req[r].res # "ok"
     THEN /\ done' = Response("put", 500, "server_error")
          /\ req' = [req EXCEPT ![r] = IdleReq]
          /\ cache' = cache
     ELSE /\ cache' = CacheAfterReadC(r)
          /\ PutCheckC(r, req[r].kind, req[r].jokes, req[r].ver)
  /\ UNCHANGED <<variant, envKey, ghContent, ghSha, now, started, heap, acked,
                 assigned, reused, fnIn, fnOut>>

\* writeJokesToGitHub after a successful write: "update cache"
CacheAfterWriteC(r) ==
  [NoCache EXCEPT !.has = TRUE, !.jokes = req[r].jokes, !.tag = req[r].ver,
     !.ver = req[r].ver, !.at = now]

\* writeJokesToGitHub after its fetch, and the PUT handler's answer
PutDoneC(r) ==
  /\ variant = "C"
  /\ req[r].op = "put" /\ req[r].pc = "resp"
  /\ done' = WriteReplyB(r)
  /\ IF req[r].res = "ok"
     THEN /\ cache' = CacheAfterWriteC(r)
          /\ acked' = MaxOf(acked, req[r].ver)
     ELSE UNCHANGED <<cache, acked>>
  /\ req' = [req EXCEPT ![r] = IdleReq]
  /\ UNCHANGED <<variant, envKey, ghContent, ghSha, now, started, heap,
                 assigned, reused, fnIn, fnOut>>

\* a public read arrives: readJokesFromGitHub answers from the cache or fetches
ReadStartC(r) ==
  /\ variant = "C"
  /\ Free(r)
  /\ started < MaxStarted
  /\ started' = started + 1
  /\ IF CacheFreshC
     THEN /\ done' = [Response("read", 200, "") EXCEPT !.jokes = cache.jokes,
                        !.ver = cache.ver, !.minVer = acked]
          /\ req' = req
     ELSE /\ done' = NoResp
          /\ req' = [req EXCEPT ![r] =
               [IdleReq EXCEPT !.op = "read", !.pc = "fetch", !.at = now,
                  !.minVer = acked]]
  /\ UNCHANGED <<variant, envKey, ghContent, ghSha, now, cache, heap, acked,
                 assigned, reused, fnIn, fnOut>>

\* readJokesFromGitHub returns to a public read
ReadDoneC(r) ==
  /\ variant = "C"
  /\ req[r].op = "read" /\ req[r].pc = "got"
  /\ IF req[r].res # "ok"
     THEN /\ done' = Response("read", 500, "server_error")
          /\ cache' = cache
     ELSE /\ done' = [Response("read", 200, "") EXCEPT !.jokes = req[r].got,
                        !.ver = req[r].ver, !.minVer = req[r].minVer]
          /\ cache' = CacheAfterReadC(r)
  /\ req' = [req EXCEPT ![r] = IdleReq]
  /\ UNCHANGED <<variant, envKey, ghContent, ghSha, now, started, heap, acked,
                 assigned, reused, fnIn, fnOut>>

\* the bodies sent to variant C, which takes no token from the client: the
\* collections above, and the stored collection without its last joke
PutBodiesC == PutBodies({0}) \cup {PutBody(0, <<J1>>)}

NextC ==
  \/ \E r \in Slots, key \in Keys, body \in PutBodiesC : PutStartC(r, key, body)
  \/ \E r \in Slots, ok \in BOOLEAN : ReadStore(r, ok)
  \/ \E r \in Slots : PutGotC(r)
  \/ \E r \in Slots, ok \in BOOLEAN : PutStore(r, ok)
  \/ \E r \in Slots : PutDoneC(r)
  \/ \E r \in Slots : ReadStartC(r)
  \/ \E r \in Slots : ReadDoneC(r)
  \/ Tick

-----------------------------------------------------------------------------
(* Variant D: src/unnamed/part_002, the second worker, POST /v1/admin/jokes *)

\* requireApiKey: the status it throws, or 0
requireApiKey(key) == IF envKey = "" THEN 500 ELSE IF key # envKey THEN 401 ELSE 0

\* String.prototype.toLowerCase on the categories sent
LowerCategory(x) == IF x = "Dad" THEN "dad" ELSE x

\* normalizeIncoming
normalizeIncoming(body) ==
  Joke(0, CollapseSpaces(Trim(body.text)),
       UpperRating(IF body.rating = "" THEN "G" ELSE body.rating),
       IF body.category = "" THEN "general" ELSE LowerCategory(body.category),
       body.active)

\* norm
norm(s) == Trim(CollapseSpaces(SeqMap(PunctToSpace, SeqMap(LowerChar, s))))

\* String.prototype.includes
Includes(a, b) ==
  \E i \in 0..(Len(a) - Len(b)) : SubSeq(a, i + 1, i + Len(b)) = b

\* findDuplicate: the index of the first joke taken for a duplicate, or 0
RECURSIVE findDuplicateFrom(_, _, _)
findDuplicateFrom(jokes, i, n) ==
  IF i > Len(jokes) THEN 0
  ELSE LET e == norm(jokes[i].text)
           lo == MinOf(Len(e), Len(n))
           hi == MaxOf(Len(e), Len(n))
       IN  IF e = n THEN i
           ELSE IF (Includes(e, n) \/ Includes(n, e)) /\ hi > 0
                   /\ lo * RatioDen > RatioNum * hi
                THEN i
                ELSE findDuplicateFrom(jokes, i + 1, n)

findDuplicate(jokes, text) == findDuplicateFrom(jokes, 1, norm(text))

\* nextId
RECURSIVE nextIdMax(_)
nextIdMax(jokes) ==
  IF jokes = <<>> THEN 0
  ELSE LET m == nextIdMax(SubSeq(jokes, 1, Len(jokes) - 1))
           j == jokes[Len(jokes)]
       IN  IF Has(j, "id") THEN MaxOf(m, j.id) ELSE m

nextId(jokes) == nextIdMax(jokes) + 1

\* loadJokesFromGitHub, parsed.map: every field coerced to its type
CoerceD(j) ==
  [id |-> j.id,
   text |-> IF Has(j, "text") THEN j.text ELSE <<>>,
   rating |-> IF Has(j, "rating") THEN UpperRating(j.rating) ELSE "G",
   category |-> IF Has(j, "category") THEN j.category ELSE "general",
   active |-> IF Has(j, "active") THEN j.active ELSE TRUE,
   bad |-> j.bad \cap {"id"}]

\* loadJokesFromGitHub: "small cache to reduce GitHub calls"
CacheFreshD == cache.has /\ now - cache.at < CACHE_D_MS

\* the arrays some request or the cache still holds; the others are dropped
Live(i, rq, c) ==
  (c.has /\ c.ref = i) \/ (\E q \in Slots : rq[q].pc # "idle" /\ rq[q].ref = i)

LiveHeap(h, rq, c) == [i \in DOMAIN h |-> IF Live(i, rq, c) THEN h[i] ELSE <<>>]

\* where the next array is allocated
NewRef == CHOOSE i \in DOMAIN heap :
            ~Live(i, req, cache) /\ \A k \in 1..(i - 1) : Live(k, req, cache)

\* POST /v1/admin/jokes bodies: unparsable, a text that normalizes to J1's,
\* and two new texts
AddBodiesD ==
  { [AddBody(<<>>, "", "", TRUE) EXCEPT !.null = TRUE],
    AddBody(<<"A", "b", "!">>, "", "", TRUE),
    AddBody(<<"a", "a", "a">>, "pg", "Dad", FALSE),
    AddBody(<<"a", "a", "a", "a">>, "G", "", TRUE) }

\* the POST handler from findDuplicate to saveJokesToGitHub's first fetch,
\* for the array at ref holding jokes
GuardD(r, ref, jokes, readSha, h, c) ==
  LET dup == findDuplicate(jokes, req[r].joke.text)
      added == [req[r].joke EXCEPT !.id = nextId(jokes)]
  IN  IF dup # 0
      THEN /\ done' = Response("add", 409, "duplicate_or_similar")
           /\ req' = [req EXCEPT ![r] = IdleReq]
           /\ heap' = LiveHeap(h, req', c)
      ELSE /\ done' = NoResp
           /\ req' = [req EXCEPT ![r] =
                [@ EXCEPT !.pc = "getsha", !.ref = ref, !.joke = added,
                   !.readSha = readSha]]
           /\ heap' = LiveHeap([h EXCEPT ![ref] = Append(jokes, added)], req', c)

\* POST arrives: requireApiKey, the body check, normalizeIncoming, then
\* loadJokesFromGitHub answers from the cache or fetches
AddStartD(r, key, body) ==
  /\ variant = "D"
  /\ Free(r)
  /\ started < MaxStarted
  /\ started' = started + 1
  /\ IF requireApiKey(key) # 0
     THEN /\ done' = Response("add", requireApiKey(key), "server_error")
          /\ UNCHANGED <<req, heap>>
     ELSE IF body.null
     THEN /\ done' = Response("add", 400, "bad_request")
          /\ UNCHANGED <<req, heap>>
     ELSE IF CacheFreshD
     THEN GuardD(r, cache.ref, heap[cache.ref], cache.ver, heap, cache)
     ELSE /\ done' = NoResp
          /\ req' = [req EXCEPT ![r] =
               [IdleReq EXCEPT !.op = "add", !.pc = "load", !.at = now,
                  !.joke = normalizeIncoming(body), !.ref = NewRef,
                  !.etag = IF cache.has THEN cache.tag ELSE 0]]
          /\ heap' = heap
  /\ UNCHANGED <<variant, envKey, ghContent, ghSha, now, cache, acked, assigned,
                 reused, fnIn, fnOut>>

\* a public read arrives: loadJokesFromGitHub answers from the cache or fetches
ReadStartD(r) ==
  /\ variant = "D"
  /\ Free(r)
  /\ started < MaxStarted
  /\ started' = started + 1
  /\ IF CacheFreshD
     THEN /\ done' = [Response("read", 200, "") EXCEPT !.jokes = heap[cache.ref],
                        !.ver = cache.ver, !.minVer = acked]
          /\ req' = req
     ELSE /\ done' = NoResp
          /\ req' = [req EXCEPT ![r] =
               [IdleReq EXCEPT !.op = "read", !.pc = "load", !.at = now,
                  !.ref = NewRef, !.minVer = acked,
                  !.etag = IF cache.has THEN cache.tag ELSE 0]]
  /\ UNCHANGED <<variant, envKey, ghContent, ghSha, now, cache, heap, acked,
                 assigned, reused, fnIn, fnOut>>

\* the store serves loadJokesFromGitHub's fetch: 304 when If-None-Match names
\* the current version
LoadStoreD(r, ok) ==
  /\ variant = "D"
  /\ req[r].pc = "load"
  /\ req' = [req EXCEPT ![r] =
       [@ EXCEPT !.pc = "loaded",
          !.res = IF ~ok THEN "fail"
                  ELSE IF req[r].etag # 0 /\ req[r].etag = ghSha THEN "304" ELSE "ok",
          !.got = IF ok THEN ghContent ELSE <<>>,
          !.ver = IF ok THEN ghSha ELSE 0]]
  /\ done' = NoResp
  /\ UNCHANGED <<variant, envKey, ghContent, ghSha, now, started, cache, heap,
                 acked, assigned, reused, fnIn, fnOut>>

\* loadJokesFromGitHub after its fetch: what it returns ("hit": the cached
\* array, "new": a new array, "throw")
LoadOutcomeD(r) ==
  IF req[r].res = "304" /\ cache.has THEN "hit"
  ELSE IF req[r].res # "ok" THEN "throw"
  ELSE IF \E i \in 1..Len(req[r].got) : ~IsObject(req[r].got[i]) THEN "throw"
  ELSE "new"

\* cache = { jokes, etag, ts: now }, or cache.ts = now on a 304
CacheAfterLoadD(r) ==
  IF LoadOutcomeD(r) = "hit" THEN [cache EXCEPT !.at = req[r].at]
  ELSE IF LoadOutcomeD(r) = "new"
       THEN [NoCache EXCEPT !.has = TRUE, !.ref = req[r].ref, !.tag = req[r].ver,
               !.ver = req[r].ver, !.at = req[r].at]
       ELSE cache

\* loadJokesFromGitHub returns and the handler goes on
LoadDoneD(r) ==
  /\ variant = "D"
  /\ req[r].pc = "loaded"
  /\ cache' = CacheAfterLoadD(r)
  /\ LET out == LoadOutcomeD(r)
         ref == IF out = "hit" THEN cache.ref ELSE req[r].ref
         jokes == IF out = "hit" THEN heap[cache.ref] ELSE SeqMap(CoerceD, req[r].got)
         readSha == IF out = "hit" THEN cache.ver ELSE req[r].ver
         h == IF out = "new" THEN [heap EXCEPT ![ref] = jokes] ELSE heap
     IN  IF out = "throw"
         THEN /\ done' = Response(req[r].op, 500, "server_error")
              /\ req' = [req EXCEPT ![r] = IdleReq]
              /\ heap' = LiveHeap(heap, req', cache')
         ELSE IF req[r].op = "read"
         THEN /\ done' = [Response("read", 200, "") EXCEPT !.jokes = jokes,
                            !.ver = readSha, !.minVer = req[r].minVer]
              /\ req' = [req EXCEPT ![r] = IdleReq]
              /\ heap' = LiveHeap(h, req', cache')
         ELSE GuardD(r, ref, jokes, readSha, h, cache')
  /\ UNCHANGED <<variant, envKey, ghContent, ghSha, now, started, acked, assigned,
                 reused, fnIn, fnOut>>

\* the store serves saveJokesToGitHub's "get current SHA"
ShaStoreD(r, ok) ==
  /\ variant = "D"
  /\ req[r].pc = "getsha"
  /\ req' = [req EXCEPT ![r] =
       [@ EXCEPT !.pc = "gotsha", !.res = IF ok THEN "ok" ELSE "fail",
          !.sha = IF ok THEN ghSha ELSE 0]]
  /\ done' = NoResp
  /\ UNCHANGED <<variant, envKey, ghContent, ghSha, now, started, cache, heap,
                 acked, assigned, reused, fnIn, fnOut>>

\* saveJokesToGitHub after the sha: the array is serialized and the PUT sent
ShaDoneD(r) ==
  /\ variant = "D"
  /\ req[r].pc = "gotsha"
  /\ IF req[r].res # "ok"
     THEN /\ done' = Response("add", 500, "server_error")
          /\ req' = [req EXCEPT ![r] = IdleReq]
     ELSE /\ done' = NoResp
          /\ req' = [req EXCEPT ![r] =
               [@ EXCEPT !.pc = "put", !.jokes = heap[req[r].ref], !.puts = @ + 1]]
  /\ heap' = LiveHeap(heap, req', cache)
  /\ UNCHANGED <<variant, envKey, ghContent, ghSha, now, started, cache, acked,
                 assigned, reused, fnIn, fnOut>>

\* saveJokesToGitHub after the PUT: what the POST handler answers
WriteReplyD(r) ==
  IF req[r].res = "ok"
  THEN [Response("add", 201, "") EXCEPT !.cause = "ok", !.puts = req[r].puts,
          !.ver = req[r].ver, !.jokes = <<req[r].joke>>]
  ELSE [Response("add", 500, "server_error") EXCEPT !.cause = req[r].res,
          !.puts = req[r].puts]

\* saveJokesToGitHub after a successful write: "bust cache"
CacheAfterWriteD == NoCache

PutDoneD(r) ==
  /\ variant = "D"
  /\ req[r].pc = "resp"
  /\ done' = WriteReplyD(r)
  /\ IF req[r].res = "ok"
     THEN /\ cache' = CacheAfterWriteD
          /\ acked' = MaxOf(acked, req[r].ver)
     ELSE UNCHANGED <<cache, acked>>
  /\ req' = [req EXCEPT ![r] = IdleReq]
  /\ heap' = LiveHeap(heap, req', cache')
  /\ UNCHANGED <<variant, envKey, ghContent, ghSha, now, started, assigned,
                 reused, fnIn, fnOut>>

NextD ==
  \/ \E r \in Slots, key \in Keys, body \in AddBodiesD : AddStartD(r, key, body)
  \/ \E r \in Slots : ReadStartD(r)
  \/ \E r \in Slots, ok \in BOOLEAN : LoadStoreD(r, ok)
  \/ \E r \in Slots : LoadDoneD(r)
  \/ \E r \in Slots, ok \in BOOLEAN : ShaStoreD(r, ok)
  \/ \E r \in Slots : ShaDoneD(r)
  \/ \E r \in Slots, ok \in BOOLEAN : PutStore(r, ok)
  \/ \E r \in Slots : PutDoneD(r)
  \/ Tick

-----------------------------------------------------------------------------
(* Specifications: one per deployed variant, and all of them *)

InitState(variants) ==
  /\ variant \in variants
  /\ envKey \in EnvKeys
  /\ ghContent \in InitContents
  /\ ghSha = 1
  /\ now = 0
  /\ started = 0
  /\ req = [r \in Slots |-> IdleReq]
  /\ cache = NoCache
  /\ heap = [i \in 1..(NumSlots + 1) |-> <<>>]
  /\ done = NoResp
  /\ acked = 0
  /\ assigned = Pairs(ghContent)
  /\ reused = FALSE

InitOf(variants) ==
  /\ InitState(variants)
  /\ fnIn = <<>>
  /\ fnOut = <<>>

InitA == InitOf({"A"})
InitB == InitOf({"B"})
InitC == InitOf({"C"})
InitD == InitOf({"D"})
InitWrite == InitOf({"A", "B"})
Init == InitOf({"A", "B", "C", "D"})

NextWrite == NextA \/ NextBWrite
Next == NextA \/ NextB \/ NextC \/ NextD

SpecA == InitA /\ [][NextA]_vars
SpecB == InitB /\ [][NextB]_vars
SpecC == InitC /\ [][NextC]_vars
SpecD == InitD /\ [][NextD]_vars
\* the admin write paths that send the token of a read: A's add, B's replace
SpecWrite == InitWrite /\ [][NextWrite]_vars
Spec == Init /\ [][Next]_vars

-----------------------------------------------------------------------------
(* The id assignment as a function of the stored collection *)

IdJoke(id) == Joke(id, <<"b">>, "G", "general", TRUE)

NewJoke == Joke(0, <<"a">>, "G", "general", TRUE)

\* collections of at most MaxIdsLen jokes with ids in 0..MaxIdIn, in any order
IdSeqs ==
  UNION {[1..n -> 0..MaxIdIn] : n \in 0..MaxIdsLen}

InitAppend ==
  /\ InitState({"F"})
  /\ \E ids \in IdSeqs : fnIn = SeqMap(IdJoke, ids)
  /\ fnOut = <<>>

\* handleAdminAdd's append (variant A) and nextId (variant D) on fnIn
ApplyAppend ==
  /\ variant = "F"
  /\ fnOut = <<>>
  /\ fnOut' = <<appendA(fnIn, NewJoke), nextId(fnIn)>>
  /\ UNCHANGED <<variant, envKey, ghContent, ghSha, now, started, req, cache,
                 heap, done, acked, assigned, reused, fnIn>>

SpecAppend == InitAppend /\ [][ApplyAppend]_vars

-----------------------------------------------------------------------------
(* The duplicate guard as a function of the candidate and the collection *)

\* the texts of the existing jokes: two with the same trigrams, two that
\* normalize to the same string, one unlike the others, and no text
GuardTexts ==
  { <<"a", "a", "a">>, <<"a", "a", "a", "a">>, <<"a", "b">>, <<"A", "b", "!">>,
    <<"b", "a">>, <<>> }

GuardJoke(i, text) == Joke(i, text, "G", "general", TRUE)

\* collections of at most MaxGuardLen jokes, the joke at position i with id i
GuardCollections ==
  UNION {{[i \in 1..n |-> GuardJoke(i, t[i])] : t \in [1..n -> GuardTexts]} :
           n \in 0..MaxGuardLen}

InitGuard ==
  /\ InitState({"F"})
  /\ \E jokes \in GuardCollections, text \in GuardTexts \ {<<>>} :
       fnIn = [jokes |-> jokes, text |-> text]
  /\ fnOut = <<>>

\* handleAdminAdd's scan (variant A) and findDuplicate (variant D) on fnIn
ApplyGuard ==
  /\ variant = "F"
  /\ fnOut = <<>>
  /\ fnOut' = <<classifyA(fnIn.text, fnIn.jokes), findDuplicate(fnIn.jokes, fnIn.text)>>
  /\ UNCHANGED <<variant, envKey, ghContent, ghSha, now, started, req, cache,
                 heap, done, acked, assigned, reused, fnIn>>

SpecGuard == InitGuard /\ [][ApplyGuard]_vars

-----------------------------------------------------------------------------
(* The three normalizations as functions of the text *)

NormChars == {"a", "s", "A", "!", " ", "\\"}

NormTexts == UNION {[1..n -> NormChars] : n \in 0..MaxTextLen}

InitNormalize ==
  /\ InitState({"F"})
  /\ fnIn \in NormTexts
  /\ fnOut = <<>>

\* each normalization applied once and twice to fnIn
ApplyNormalize ==
  /\ variant = "F"
  /\ fnOut = <<>>
  /\ fnOut' = [a |-> normalizeText(fnIn),
               aa |-> normalizeText(normalizeText(fnIn)),
               a2 |-> normalizeText2(fnIn),
               a2a2 |-> normalizeText2(normalizeText2(fnIn)),
               d |-> norm(fnIn),
               dd |-> norm(norm(fnIn))]
  /\ UNCHANGED <<variant, envKey, ghContent, ghSha, now, started, req, cache,
                 heap, done, acked, assigned, reused, fnIn>>

SpecNormalize == InitNormalize /\ [][ApplyNormalize]_vars

-----------------------------------------------------------------------------
(* The trigram score as a function of two strings *)

ScoreChars == {"a", "b", " "}

ScoreTexts == UNION {[1..n -> ScoreChars] : n \in 0..MaxTextLen}

InitScore ==
  /\ InitState({"F"})
  /\ fnIn \in ScoreTexts \X ScoreTexts
  /\ fnOut = <<>>

\* jaccardTrigrams on the pair fnIn, in both orders, and on its first string
\* with itself
ApplyScore ==
  /\ variant = "F"
  /\ fnOut = <<>>
  /\ fnOut' = [ab |-> jaccardTrigrams(fnIn[1], fnIn[2]),
               ba |-> jaccardTrigrams(fnIn[2], fnIn[1]),
               aa |-> jaccardTrigrams(fnIn[1], fnIn[1])]
  /\ UNCHANGED <<variant, envKey, ghContent, ghSha, now, started, req, cache,
                 heap, done, acked, assigned, reused, fnIn>>

SpecScore == InitScore /\ [][ApplyScore]_vars

-----------------------------------------------------------------------------
(* The joke of the day: GET /v1/joke/today of variants C and B *)

\* String.prototype.charCodeAt for the characters of a seed
Code(c) ==
  CASE c = "0" -> 48 [] c = "1" -> 49 [] c = "2" -> 50 [] c = "3" -> 51
    [] c = "4" -> 52 [] c = "5" -> 53 [] c = "6" -> 54 [] c = "7" -> 55
    [] c = "8" -> 56 [] c = "9" -> 57 [] c = "-" -> 45 [] c = "," -> 44
    [] c = "|" -> 124 [] c = "G" -> 71 [] c = "P" -> 80 [] c = "g" -> 103
    [] c = "p" -> 112 [] c = "d" -> 100 [] c = "a" -> 97 [] c = "j" -> 106
    [] c = "o" -> 111 [] c = "t" -> 116

\* the characters of the strings that requests and jokes carry
StrChars(x) ==
  CASE x = "G" -> <<"G">> [] x = "PG" -> <<"P", "G">> [] x = "pg" -> <<"p", "g">>
    [] x = "dad" -> <<"d", "a", "d">> [] x = "PG-13" -> <<"P", "G", "-", "1", "3">>

\* Array.prototype.join(",") on the strings' characters
RECURSIVE Join(_)
Join(list) ==
  IF list = <<>> THEN <<>>
  ELSE IF Len(list) = 1 THEN StrChars(list[1])
  ELSE StrChars(list[1]) \o <<",">> \o Join(Tail(list))

\* x ^ y, bit by bit
RECURSIVE Xor(_, _)
Xor(x, y) ==
  IF x = 0 THEN y
  ELSE IF y = 0 THEN x
  ELSE ((x + y) % 2) + 2 * Xor(x \div 2, y \div 2)

\* 32-bit words are kept as <<high 16 bits, low 16 bits>>; 2166136261
FnvOffset == <<33052, 40389>>

\* a product by 403 alone, without the 2^24 of the multiplier
imulPrimeLow(h) ==
  LET lo == h[2] * 403
  IN  <<(h[1] * 403 + (lo \div 65536)) % 65536, lo % 65536>>

\* Math.imul(h, 16777619), where 16777619 = 2^24 + 403
imulPrime(h) ==
  LET lo == h[2] * 403
  IN  <<(h[1] * 403 + (lo \div 65536) + (h[2] % 256) * 256) % 65536, lo % 65536>>

\* the loop of stableHashToInt and of stableIndexFromString
RECURSIVE fnv(_, _)
fnv(h, str) ==
  IF str = <<>> THEN h
  ELSE fnv(imulPrime(<<h[1], Xor(h[2], Code(Head(str)))>>), Tail(str))

\* stableHashToInt: the word read as an unsigned number (h >>> 0)
stableHashToInt(str) == fnv(FnvOffset, str)

\* h % n for the word h read as a signed 32-bit number, as Math.imul leaves it
RemSigned(h, n) ==
  IF h[1] < 32768
  THEN ((h[1] % n) * (65536 % n) + h[2]) % n
  ELSE 0 - ((((65535 - h[1]) % n) * (65536 % n) + (65536 - h[2])) % n)

\* h % n for the word h read as an unsigned number
Rem(h, n) == ((h[1] % n) * (65536 % n) + h[2]) % n

\* null and undefined where a joke is expected
Null == [NoJoke EXCEPT !.bad = {"null"}]
Undefined == [NoJoke EXCEPT !.bad = {"undefined"}]

\* arr[i] for a zero-based index
At(arr, i) == IF i \in 0..(Len(arr) - 1) THEN arr[i + 1] ELSE Undefined

\* pickTodayJoke
pickTodayJoke(jokes, seedStr) ==
  IF Len(jokes) = 0 THEN Null
  ELSE At(jokes, Rem(stableHashToInt(seedStr), Len(jokes)))

\* stableIndexFromString
stableIndexFromString(str, mod) ==
  IF mod = 0 THEN 0 ELSE Rem(fnv(FnvOffset, str), mod)

\* Array.prototype.filter
RECURSIVE Filter(_, _)
Filter(jokes, keep) ==
  IF jokes = <<>> THEN <<>>
  ELSE (IF Head(jokes).id \in keep THEN <<Head(jokes)>> ELSE <<>>)
         \o Filter(Tail(jokes), keep)

\* filterJokes of variant C, activeOnly being true: no rating filter and no
\* category filter when the list is null or empty
filterJokesC(jokes, ratings, categories) ==
  LET rset == {UpperRating(ratings[i]) : i \in 1..Len(ratings)}
      cset == {LowerCategory(categories[i]) : i \in 1..Len(categories)}
  IN  Filter(jokes,
        {jokes[i].id : i \in {k \in 1..Len(jokes) :
            /\ Has(jokes[k], "active") /\ jokes[k].active = TRUE
            /\ ratings = <<>> \/ UpperRating(jokes[k].rating) \in rset
            /\ categories = <<>> \/ LowerCategory(jokes[k].category) \in cset}})

\* GET /v1/joke/today of variant C: the joke picked (null when none matches)
todayC(jokes, date, ratings, categories) ==
  pickTodayJoke(filterJokesC(jokes, ratings, categories),
                date \o <<"|">> \o Join(ratings) \o <<"|">> \o Join(categories))

\* parseFilters and filterJokes of variant B: ratings default to G and PG
filterJokesB(jokes, ratings, categories) ==
  LET rs == IF ratings = <<>> THEN <<"G", "PG">> ELSE ratings
      rset == {UpperRating(rs[i]) : i \in 1..Len(rs)}
      cset == {LowerCategory(categories[i]) : i \in 1..Len(categories)}
  IN  Filter(jokes,
        {jokes[i].id : i \in {k \in 1..Len(jokes) :
            /\ IsObject(jokes[k])
            /\ Has(jokes[k], "active") /\ jokes[k].active = TRUE
            /\ UpperRating(jokes[k].rating) \in rset
            /\ categories = <<>> \/ LowerCategory(jokes[k].category) \in cset
            /\ Has(jokes[k], "text") /\ jokes[k].text # <<>>}})

\* handleJokeToday of variant B: the joke picked (null for the 404 answer)
handleJokeToday(jokes, date, ratings, categories) ==
  LET pool == filterJokesB(jokes, ratings, categories)
  IN  IF Len(pool) = 0 THEN Null
      ELSE At(pool, stableIndexFromString(date, Len(pool)))

Digit(d) == <<"0", "1", "2", "3", "4", "5", "6", "7", "8", "9">>[d + 1]

\* the local date as YYYY-MM-DD
DateOf(d) == <<"2", "0", "2", "6", "-", "1", "1", "-", "0", Digit(d)>>

Dates == {DateOf(d) : d \in 1..MaxDays}

\* the stored jokes: all active, ratings G and PG in turn, every third a dad joke
PoolJoke(i) ==
  Joke(i, <<"a">>, IF i % 2 = 1 THEN "G" ELSE "PG",
       IF i % 3 = 0 THEN "dad" ELSE "general", TRUE)

TodayStores == {[i \in 1..n |-> PoolJoke(i)] : n \in 0..MaxPool}

\* the ratings parameter of a request, split at the commas
RatingLists == {<<>>, <<"G">>, <<"G", "PG">>, <<"PG", "G">>, <<"pg", "G">>}

CategoryLists == {<<>>, <<"dad">>}

InitToday ==
  /\ InitState({"F"})
  /\ \E jokes \in TodayStores, date \in Dates, first \in RatingLists,
        second \in RatingLists, categories \in CategoryLists :
       fnIn = [jokes |-> jokes, date |-> date, first |-> first,
               second |-> second, categories |-> categories]
  /\ fnOut = <<>>

\* two requests on the same date against the same store, with the rating
\* lists first and second, answered by each variant
ApplyToday ==
  /\ variant = "F"
  /\ fnOut = <<>>
  /\ fnOut' =
       [pool |-> filterJokesC(fnIn.jokes, fnIn.first, fnIn.categories),
        c1 |-> todayC(fnIn.jokes, fnIn.date, fnIn.first, fnIn.categories),
        c2 |-> todayC(fnIn.jokes, fnIn.date, fnIn.second, fnIn.categories),
        again |-> todayC(fnIn.jokes, fnIn.date, fnIn.first, fnIn.categories),
        poolB |-> filterJokesB(fnIn.jokes, fnIn.first, fnIn.categories),
        index |-> stableIndexFromString(fnIn.date,
                    Len(filterJokesB(fnIn.jokes, fnIn.first, fnIn.categories))),
        b1 |-> handleJokeToday(fnIn.jokes, fnIn.date, fnIn.first, fnIn.categories),
        b2 |-> handleJokeToday(fnIn.jokes, fnIn.date, fnIn.second, fnIn.categories)]
  /\ UNCHANGED <<variant, envKey, ghContent, ghSha, now, started, req, cache,
                 heap, done, acked, assigned, reused, fnIn>>

SpecToday == InitToday /\ [][ApplyToday]_vars

-----------------------------------------------------------------------------
(* The public reads of the four variants as functions of the stored
   collection, the request parameters, the date and the random number *)

\* what a public read answers
Answer(status, joke, error) == [status |-> status, joke |-> joke, error |-> error]

\* pickRandomJoke, rnd being the number crypto.getRandomValues gave
pickRandomJoke(jokes, rnd) ==
  IF Len(jokes) = 0 THEN Null ELSE At(jokes, rnd % Len(jokes))

\* GET /v1/joke/today of variant C
todayAnswerC(jokes, date, ratings, categories) ==
  LET picked == todayC(jokes, date, ratings, categories)
  IN  IF picked = Null
      THEN Answer(200, Null, "No matching jokes found (check ratings/categories/active)")
      ELSE Answer(200, picked, "")

\* GET /v1/joke/random of variant C
randomAnswerC(jokes, ratings, categories, rnd) ==
  LET picked == pickRandomJoke(filterJokesC(jokes, ratings, categories), rnd)
  IN  IF picked = Null
      THEN Answer(200, Null, "No matching jokes found (check ratings/categories/active)")
      ELSE Answer(200, picked, "")

\* handleJokeToday of variant B, with its status
todayAnswerB(jokes, date, ratings, categories) ==
  LET picked == handleJokeToday(jokes, date, ratings, categories)
  IN  IF picked = Null THEN Answer(404, Null, "no_jokes") ELSE Answer(200, picked, "")

\* handleJokeRandom of variant B, rnd standing for Math.random
handleJokeRandom(jokes, ratings, categories, rnd) ==
  LET pool == filterJokesB(jokes, ratings, categories)
  IN  IF Len(pool) = 0 THEN Answer(404, Null, "no_jokes")
      ELSE Answer(200, At(pool, rnd % Len(pool)), "")

\* passesRating: the joke's rating is not above the requested one
RatingIndex(x) ==
  CASE UpperRating(x) = "PG" -> 1 [] UpperRating(x) = "PG-13" -> 2
    [] UpperRating(x) = "R" -> 3 [] OTHER -> 0

passesRating(jokeRating, requestedRating) ==
  RatingIndex(jokeRating) <= RatingIndex(requestedRating)

\* handleJokes of variant A for /v1/joke/random and /v1/joke/today: x is the
\* random number, or the number made of the first bytes of the digest
handleJokes(jokes, ratings, categories, x) ==
  LET rating == IF ratings = <<>> THEN "G" ELSE ratings[1]
      filtered == Filter(jokes,
        {jokes[i].id : i \in {k \in 1..Len(jokes) :
            /\ ~(Has(jokes[k], "active") /\ jokes[k].active = FALSE)
            /\ passesRating(jokes[k].rating, rating)
            /\ categories = <<>>
                 \/ LowerCategory(jokes[k].category) = LowerCategory(categories[1])}})
  IN  IF Len(filtered) = 0
      THEN Answer(404, Null, "No jokes available for the given filters.")
      ELSE Answer(200, At(filtered, x % Len(filtered)), "")

\* hash of variant D
hash(str) == fnv(FnvOffset, str)

\* pickToday of variant D
pickToday(jokes, date, ratings, categories) ==
  LET rs == IF ratings = <<>> THEN <<"G", "PG">> ELSE ratings
      allowedRatings == {UpperRating(rs[i]) : i \in 1..Len(rs)}
      cset == {categories[i] : i \in 1..Len(categories)}
      pool == Filter(jokes,
        {jokes[i].id : i \in {k \in 1..Len(jokes) :
            /\ ~(Has(jokes[k], "active") /\ jokes[k].active = FALSE)
            /\ jokes[k].rating \in allowedRatings
            /\ categories = <<>> \/ jokes[k].category \in cset}})
      seed == hash(date \o <<"|", Digit(Len(pool)), "|", "j", "o", "t", "d">>)
  IN  IF Len(pool) = 0 THEN Answer(200, Null, "No jokes match filters.")
      ELSE Answer(200, At(pool, Rem(seed, Len(pool))), "")

\* stored jokes: a plain one, an inactive one, one without the active field,
\* one rated PG-13, one without text, one with rating and category in
\* another case
PublicJokes ==
  { Joke(1, <<"a">>, "G", "general", TRUE),
    Joke(2, <<"b">>, "G", "dad", FALSE),
    [Joke(3, <<"a">>, "PG", "general", TRUE) EXCEPT !.bad = {"active"}],
    Joke(4, <<"a">>, "PG-13", "general", TRUE),
    [Joke(5, <<>>, "G", "general", TRUE) EXCEPT !.bad = {"text"}],
    Joke(6, <<"a">>, "pg", "Dad", TRUE) }

PublicStores == UNION {[1..n -> PublicJokes] : n \in 0..MaxStoreLen}

\* the ratings parameter of a request, split at the commas
PublicRatings == {<<>>, <<"G">>, <<"pg", "G">>, <<"PG-13">>}

InitPublic ==
  /\ InitState({"F"})
  /\ \E jokes \in PublicStores, date \in Dates, ratings \in PublicRatings,
        categories \in CategoryLists, rnd \in 0..MaxRandom :
       fnIn = [jokes |-> jokes, date |-> date, ratings |-> ratings,
               categories |-> categories, rnd |-> rnd]
  /\ fnOut = <<>>

\* the filters and the answers of the variants to one request
ApplyPublic ==
  /\ variant = "F"
  /\ fnOut = <<>>
  /\ fnOut' =
       [filterB |-> filterJokesB(fnIn.jokes, fnIn.ratings, fnIn.categories),
        filterC |-> filterJokesC(fnIn.jokes, fnIn.ratings, fnIn.categories),
        todayC |-> todayAnswerC(fnIn.jokes, fnIn.date, fnIn.ratings, fnIn.categories),
        randomC |-> randomAnswerC(fnIn.jokes, fnIn.ratings, fnIn.categories, fnIn.rnd),
        todayB |-> todayAnswerB(fnIn.jokes, fnIn.date, fnIn.ratings, fnIn.categories),
        randomB |-> handleJokeRandom(fnIn.jokes, fnIn.ratings, fnIn.categories, fnIn.rnd),
        jokesA |-> handleJokes(fnIn.jokes, fnIn.ratings, fnIn.categories, fnIn.rnd),
        todayD |-> pickToday(fnIn.jokes, fnIn.date, fnIn.ratings, fnIn.categories)]
  /\ UNCHANGED <<variant, envKey, ghContent, ghSha, now, started, req, cache,
                 heap, done, acked, assigned, reused, fnIn>>

SpecPublic == InitPublic /\ [][ApplyPublic]_vars

-----------------------------------------------------------------------------
(* The selector hash as a function of the seed and the pool's length *)

HashChars == {"0", "|", "G", "t"}

\* every short seed over HashChars, and the dates
HashSeeds == UNION {[1..n -> HashChars] : n \in 0..MaxTextLen} \cup Dates

InitHash ==
  /\ InitState({"F"})
  /\ \E seed \in HashSeeds, n \in 1..MaxPool : fnIn = [seed |-> seed, n |-> n]
  /\ fnOut = <<>>

\* the hash of each variant on the seed, and the index each takes from it
\* for a pool of n jokes
ApplyHash ==
  /\ variant = "F"
  /\ fnOut = <<>>
  /\ fnOut' = [c |-> stableHashToInt(fnIn.seed),
               d |-> hash(fnIn.seed),
               indexC |-> Rem(stableHashToInt(fnIn.seed), fnIn.n),
               indexB |-> stableIndexFromString(fnIn.seed, fnIn.n),
               indexD |-> Rem(hash(fnIn.seed), fnIn.n)]
  /\ UNCHANGED <<variant, envKey, ghContent, ghSha, now, started, req, cache,
                 heap, done, acked, assigned, reused, fnIn>>

SpecHash == InitHash /\ [][ApplyHash]_vars

-----------------------------------------------------------------------------
(* Properties *)

\* the store answers request r's conditional write, whose token is stale
StaleWriteStep(r) ==
  /\ req[r].pc = "put"
  /\ req'[r].pc # "put"
  /\ req[r].sha # ghSha

AtMostOneWrite ==
  /\ \A r \in Slots : req[r].puts <= 1
  /\ done.puts <= 1
  /\ done.cause = "conflict" => (done.puts = 1 /\ done.status >= 400)

\* a request whose one write met a conflict has been answered
ConflictAnsweredOnce == done.cause = "conflict" /\ done.puts = 1

\* C5: a write refused for its token is answered with a conflict status (409),
\* not with the status of a transport failure
ConflictIs409 == done.cause = "conflict" => done.status = 409

\* C2: the token sent with a conditional write is the token of the read the
\* written collection was derived from
TokenIsReadToken ==
  \A r \in Slots : (req[r].op = "add" /\ req[r].pc = "put") => req[r].sha = req[r].readSha

\* C3: a read that starts after a write was acknowledged answers that write's
\* collection or a newer one
ReadNotStale ==
  (done.op = "read" /\ done.status = 200) => done.ver >= done.minVer

\* C6: no two jokes of the stored collection have the same id
StoredIdsUnique == UniqueIds(ghContent)

\* C7: an id once stored with a joke is never given by a later add to another joke
NoIdReuse == ~reused

\* the maximum of a set of ids, 0 for the empty set
SetMax(S) == IF S = {} THEN 0 ELSE CHOOSE m \in S : \A k \in S : k <= m

ExpectedId == SetMax(Ids(fnIn)) + 1

\* C8: the new joke's id is the maximum of the existing ids (0 for the empty
\* collection) plus one, whatever the order of the existing jokes (whose ids
\* are numbers from 0 up); the collection gains exactly that joke
AppendIdIsMaxPlusOne ==
  fnOut # <<>> =>
    /\ fnOut[2] = ExpectedId
    /\ Len(fnOut[1]) = Len(fnIn) + 1
    /\ \E i \in 1..Len(fnOut[1]) :
         /\ fnOut[1][i] = [NewJoke EXCEPT !.id = ExpectedId]
         /\ \A k \in 1..Len(fnOut[1]) : k # i => fnOut[1][k].text # NewJoke.text

\* the collection with ids 3, 1, 7 was appended to and the new id is 8
AppendOf317 ==
  /\ fnIn = SeqMap(IdJoke, <<3, 1, 7>>)
  /\ fnOut # <<>>
  /\ fnOut[2] = 8

\* C9: the stored document holds only well-formed jokes
StoredWellFormed == WellFormed(ghContent)

\* C10: a read never answers a document with a malformed joke
ReadValidates ==
  (done.op = "read" /\ done.status = 200) => WellFormed(done.jokes)

\* C11: no successful write removes a joke: every id in the store before a
\* step is in the store after it
NoHardDelete == [][Ids(ghContent) \subseteq Ids(ghContent')]_vars

\* the existing joke at position i has a text and normalizes to the candidate
ExactAt(i) ==
  /\ fnIn.jokes[i].text # <<>>
  /\ normalizeText(fnIn.jokes[i].text) = normalizeText(fnIn.text)

\* the existing joke at position i has a text and scores at least the threshold
ScoresHighAt(i) ==
  /\ fnIn.jokes[i].text # <<>>
  /\ ScoreGe(jaccardTrigrams(normalizeText(fnIn.jokes[i].text),
                             normalizeText(fnIn.text)), SIMILARITY_THRESHOLD)

\* C12: when some existing joke with a text normalizes to the candidate, the
\* scan answers an exact match and reports the first such joke, wherever it
\* stands and whatever the jokes before it scored
ExactMatchWins ==
  fnOut # <<>> =>
    \A i \in 1..Len(fnIn.jokes) :
      (ExactAt(i) /\ \A k \in 1..(i - 1) : ~ExactAt(k)) =>
        (fnOut[1].kind = "exact" /\ fnOut[1].id = fnIn.jokes[i].id)

\* an exact match was reported for the second joke after the first joke had
\* scored at or above the threshold
ExactAfterHighScore ==
  /\ fnOut # <<>>
  /\ Len(fnIn.jokes) = 2
  /\ ScoresHighAt(1) /\ ~ExactAt(1) /\ ExactAt(2)
  /\ fnOut[1].kind = "exact" /\ fnOut[1].id = 2

\* C13: without an exact match the guard rejects the candidate as similar
\* exactly when some existing joke's trigram score is at least 0.82
SimilarIffThreshold ==
  (fnOut # <<>> /\ \A i \in 1..Len(fnIn.jokes) : ~ExactAt(i)) =>
    /\ (fnOut[1].kind = "similar") <=> (\E i \in 1..Len(fnIn.jokes) : ScoresHighAt(i))
    /\ (fnOut[2] # 0) <=> (\E i \in 1..Len(fnIn.jokes) : ScoresHighAt(i))

\* some joke of the collection with a text normalizes to the text, or scores
\* at least the threshold against it
IsDuplicateIn(text, jokes) ==
  \E i \in 1..Len(jokes) :
    /\ jokes[i].text # <<>>
    /\ \/ normalizeText(jokes[i].text) = normalizeText(text)
       \/ ScoreGe(jaccardTrigrams(normalizeText(jokes[i].text), normalizeText(text)),
                  SIMILARITY_THRESHOLD)

\* the step in which request r leaves its read: a duplicate candidate ends
\* the request with no write and the store untouched, a novel one goes on to
\* its write unless the read failed
GuardedStep(r) ==
  (req[r].op = "add" /\ req[r].pc = "read" /\ req'[r].pc # "read") =>
    IF IsDuplicateIn(req[r].joke.text, ghContent)
    THEN /\ req'[r].pc = "idle"
         /\ done'.puts = 0
         /\ ghContent' = ghContent /\ ghSha' = ghSha
    ELSE (req'[r].pc = "put" \/ done'.status = 500)

\* the store changes only by the one write of a request that was let through
WriteIsOfNovel ==
  (ghContent' # ghContent \/ ghSha' # ghSha) =>
    \E r \in Slots : req[r].pc = "put" /\ req[r].puts = 1 /\ req'[r].pc = "idle"

\* C14: an add whose candidate is an exact or similar duplicate of the
\* collection it read ends without issuing a write and leaves the store and
\* its token as they were; a write is prepared only for a novel candidate,
\* and the store changes only by the write of such a request
DuplicateIssuesNoWrite ==
  [][WriteIsOfNovel /\ \A r \in Slots : GuardedStep(r)]_vars

\* a similar (not exact) candidate was answered 409 with no write issued
SimilarRejectedUnwritten ==
  /\ done.op = "add" /\ done.status = 409
  /\ done.error = "Similar joke already exists"
  /\ done.puts = 0

\* C15: each normalization applied to its own result returns that result
NormalizeIdempotent ==
  fnOut # <<>> =>
    /\ fnOut.aa = fnOut.a
    /\ fnOut.a2a2 = fnOut.a2
    /\ fnOut.dd = fnOut.d

\* a text that each normalization changed, and that the two copies of
\* normalizeText changed differently
NormalizedTwice ==
  /\ fnOut # <<>>
  /\ fnOut.a # fnIn /\ fnOut.a2 # fnIn /\ fnOut.d # fnIn
  /\ fnOut.a # <<>> /\ fnOut.a2 # fnOut.a
  /\ fnOut.aa = fnOut.a /\ fnOut.a2a2 = fnOut.a2 /\ fnOut.dd = fnOut.d

\* the maximal runs of letters and digits of a text, in order
RECURSIVE WordsFrom(_, _)
WordsFrom(s, word) ==
  IF s = <<>> THEN (IF word = <<>> THEN <<>> ELSE <<word>>)
  ELSE IF IsAlnum(Head(s)) THEN WordsFrom(Tail(s), Append(word, Head(s)))
  ELSE (IF word = <<>> THEN <<>> ELSE <<word>>) \o WordsFrom(Tail(s), <<>>)

Words(s) == WordsFrom(s, <<>>)

\* r is the lowercased words of s joined by single spaces: only letters,
\* digits and spaces, no space at either end, no two spaces in a row
IsNormalFormOf(r, s) ==
  /\ \A i \in 1..Len(r) : IsAlnum(r[i]) \/ r[i] = " "
  /\ r # <<>> => (r[1] # " " /\ r[Len(r)] # " ")
  /\ \A i \in 1..(Len(r) - 1) : ~(r[i] = " " /\ r[i + 1] = " ")
  /\ Words(r) = Words(SeqMap(LowerChar, s))

\* C16: normalizeText returns the lowercased text with every character other
\* than a letter or digit turned into a space, runs of spaces collapsed to
\* one, and the ends trimmed
NormalizeIsNormalForm ==
  fnOut # <<>> =>
    /\ IsNormalFormOf(fnOut.a, fnIn)
    /\ IsNormalFormOf(fnOut.a2, fnIn)

\* C17: the score of a string against itself is exactly 1, the empty string
\* included
SelfScoreIsOne ==
  fnOut # <<>> => (fnOut.aa[2] > 0 /\ fnOut.aa[1] = fnOut.aa[2])

\* the empty string scored 1 against itself
EmptySelfScored ==
  fnOut # <<>> /\ fnIn[1] = <<>> /\ fnOut.aa = <<1, 1>>

\* the 3-character windows of the string with two spaces before and after it
PaddedWindows(s) ==
  LET p == <<" ", " ">> \o s \o <<" ", " ">>
  IN  {w \in [1..3 -> ScoreChars] : \E i \in 1..(Len(p) - 2) : \A k \in 1..3 : p[i + k - 1] = w[k]}

\* C18: the score is the same in both orders, lies between 0 and 1, is the
\* size of the intersection over the size of the union of the two strings'
\* padded trigram sets, and is 0 when that union is empty
ScoreIsJaccard ==
  fnOut # <<>> =>
    LET A == PaddedWindows(fnIn[1])
        B == PaddedWindows(fnIn[2])
        score == fnOut.ab
    IN  /\ score[2] > 0
        /\ score[1] * fnOut.ba[2] = fnOut.ba[1] * score[2]
        /\ 0 <= score[1] /\ score[1] <= score[2]
        /\ score[1] * Cardinality(A \cup B) = Cardinality(A \cap B) * score[2]
        /\ (A \cup B = {}) => score[1] = 0

\* two different strings sharing some but not all of their trigrams were scored
PartialOverlapScored ==
  /\ fnOut # <<>>
  /\ fnIn[1] # fnIn[2]
  /\ Len(fnIn[1]) # Len(fnIn[2])
  /\ 0 < fnOut.ab[1] /\ fnOut.ab[1] < fnOut.ab[2]

\* C19: for a pool that is not empty the pick is a joke of the pool, found at
\* an index between 0 and the pool's length less one, and the same seed and
\* pool give the same joke again
PickInRangeAndStable ==
  fnOut # <<>> =>
    /\ fnOut.pool # <<>> =>
         /\ \E i \in 1..Len(fnOut.pool) : fnOut.c1 = fnOut.pool[i]
         /\ fnOut.again = fnOut.c1
    /\ fnOut.poolB # <<>> =>
         /\ fnOut.index \in 0..(Len(fnOut.poolB) - 1)
         /\ fnOut.b1 = fnOut.poolB[fnOut.index + 1]

\* a pick from a pool of several jokes under a seed whose hash has its top
\* bit set
PickedWithHighHash ==
  /\ fnOut # <<>>
  /\ Len(fnOut.pool) >= 2
  /\ stableHashToInt(fnIn.date \o <<"|">> \o Join(fnIn.first) \o <<"|">>
                       \o Join(fnIn.categories))[1] >= 32768
  /\ fnOut.c1 \in {fnOut.pool[i] : i \in 1..Len(fnOut.pool)}

\* C20: two requests on the same date whose rating lists hold the same
\* ratings, in whatever order, and the same categories get the same joke
SameFiltersSameJoke ==
  (/\ fnOut # <<>>
   /\ {fnIn.first[i] : i \in 1..Len(fnIn.first)}
        = {fnIn.second[i] : i \in 1..Len(fnIn.second)}) =>
    /\ fnOut.c1 = fnOut.c2
    /\ fnOut.b1 = fnOut.b2

\* the failure an empty pool is to end the selection with
EmptyPoolError == [NoJoke EXCEPT !.bad = {"EmptyPoolError"}]

\* C21: the selection from an empty pool fails with EmptyPoolError: it gives
\* neither a joke nor null, and no index 0
EmptyPoolFails ==
  fnOut # <<>> =>
    /\ fnOut.pool = <<>> => fnOut.c1 = EmptyPoolError
    /\ fnOut.poolB = <<>> => fnOut.index # 0

\* C22: a public read for which no joke passes the filters is answered 404,
\* not with a success and not with a server error
NoMatchIs404 ==
  fnOut # <<>> =>
    /\ fnOut.filterC = <<>> => (fnOut.todayC.status = 404 /\ fnOut.randomC.status = 404)
    /\ fnOut.filterB = <<>> => (fnOut.todayB.status = 404 /\ fnOut.randomB.status = 404)

\* the filter predicate: active, rating among the ratings, category among the
\* categories when there are any, a text that is present
Passes(j, ratings, categories) ==
  /\ IsObject(j)
  /\ Has(j, "active") /\ j.active = TRUE
  /\ UpperRating(j.rating) \in {UpperRating(ratings[i]) : i \in 1..Len(ratings)}
  /\ categories = <<>>
       \/ LowerCategory(j.category) \in {LowerCategory(categories[i]) : i \in 1..Len(categories)}
  /\ Has(j, "text") /\ j.text # <<>>

\* out is the subsequence of jokes whose elements pass, in their order
RECURSIVE IsFilterOf(_, _, _, _)
IsFilterOf(out, jokes, ratings, categories) ==
  IF jokes = <<>> THEN out = <<>>
  ELSE IF Passes(Head(jokes), ratings, categories)
       THEN out # <<>> /\ Head(out) = Head(jokes)
            /\ IsFilterOf(Tail(out), Tail(jokes), ratings, categories)
       ELSE IsFilterOf(out, Tail(jokes), ratings, categories)

\* C23: filterJokes returns exactly the jokes that pass the predicate, in
\* their original order, and the empty sequence when none does
FilterIsExact ==
  fnOut # <<>> =>
    /\ IsFilterOf(fnOut.filterC, fnIn.jokes, fnIn.ratings, fnIn.categories)
    /\ fnIn.ratings # <<>> =>
         IsFilterOf(fnOut.filterB, fnIn.jokes, fnIn.ratings, fnIn.categories)

\* the joke of an answer, when it has one, has its active flag set to true
ActiveOrNone(answer) ==
  answer.joke = Null \/ (Has(answer.joke, "active") /\ answer.joke.active = TRUE)

\* C24: no public read returns a joke whose active flag is not true
OnlyActiveReturned ==
  fnOut # <<>> =>
    /\ ActiveOrNone(fnOut.todayC) /\ ActiveOrNone(fnOut.randomC)
    /\ ActiveOrNone(fnOut.jokesA)
    /\ ActiveOrNone(fnOut.todayD)

\* the joke of an answer, when it has one, is rated G or PG
MildOrNone(answer) ==
  answer.joke = Null \/ UpperRating(answer.joke.rating) \in {"G", "PG"}

\* C25: a public read without a ratings parameter returns no joke rated
\* above PG
DefaultRatingsAreMild ==
  (fnOut # <<>> /\ fnIn.ratings = <<>>) =>
    /\ MildOrNone(fnOut.todayC) /\ MildOrNone(fnOut.randomC)
    /\ MildOrNone(fnOut.todayB) /\ MildOrNone(fnOut.randomB)

\* C26: while no key is configured no admin request is admitted to a store
\* read or write: none is in progress after a step, none is answered with
\* the collection, and the stored collection and its token never change
NoKeyNoAdmin ==
  [][envKey = "" =>
       /\ ghContent' = ghContent /\ ghSha' = ghSha
       /\ \A r \in Slots : req'[r].op \notin {"add", "put"}
       /\ ~(done'.op = "list" /\ done'.status = 200)]_vars

\* C27: once every request has been answered, every joke that a successful
\* add has written is in the store: no write has left it out
NoLostUpdate ==
  (\A r \in Slots : req[r].pc = "idle") => \A p \in assigned : p \in Pairs(ghContent)

\* no two jokes of the collection have the same normalized text
NoTwins(jokes) ==
  \A i, k \in 1..Len(jokes) :
    (i # k /\ Has(jokes[i], "text") /\ Has(jokes[k], "text")) =>
      norm(jokes[i].text) # norm(jokes[k].text)

\* two adds of the same normalized text have both been written to the store
\* and both await their 201
BothCommitted ==
  \E r1, r2 \in Slots :
    /\ r1 # r2
    /\ req[r1].op = "add" /\ req[r1].pc = "resp" /\ req[r1].res = "ok"
    /\ req[r2].op = "add" /\ req[r2].pc = "resp" /\ req[r2].res = "ok"
    /\ norm(req[r1].joke.text) = norm(req[r2].joke.text)

\* C28: the store never holds two jokes of equal normalized text, and of two
\* racing adds of the same text at most one is committed
RacingTwinsNotBothCommitted == NoTwins(ghContent) /\ ~BothCommitted

\* C29: the cached collection holds only jokes that were committed to the
\* store at some time
CacheIsCommitted ==
  (variant = "D" /\ cache.has) => Pairs(heap[cache.ref]) \subseteq assigned

\* The FNV-1a reference on 32-bit words written as their 32 bits, lowest first

\* the w lowest bits of a number below 2^w
RECURSIVE Bits(_, _)
Bits(x, w) == IF w = 0 THEN <<>> ELSE <<x % 2>> \o Bits(x \div 2, w - 1)

\* 2166136261 = 33052 * 2^16 + 40389
RefOffset == Bits(40389, 16) \o Bits(33052, 16)

RECURSIVE RefXor(_, _)
RefXor(a, b) ==
  IF a = <<>> THEN <<>>
  ELSE <<(Head(a) + Head(b)) % 2>> \o RefXor(Tail(a), Tail(b))

\* a * 2^k mod 2^32
RefShift(a, k) == Bits(0, k) \o SubSeq(a, 1, 32 - k)

\* a + b mod 2^32, bit i onwards, with the carry into bit i
RECURSIVE RefAddFrom(_, _, _, _)
RefAddFrom(a, b, i, carry) ==
  IF i > 32 THEN <<>>
  ELSE LET sum == a[i] + b[i] + carry
       IN  <<sum % 2>> \o RefAddFrom(a, b, i + 1, sum \div 2)

RefAdd(a, b) == RefAddFrom(a, b, 1, 0)

\* a * 16777619 mod 2^32, 16777619 being 2^24 + 2^8 + 2^7 + 2^4 + 2 + 1
RefTimesPrime(a) ==
  RefAdd(RefShift(a, 24),
    RefAdd(RefShift(a, 8),
      RefAdd(RefShift(a, 7),
        RefAdd(RefShift(a, 4), RefAdd(RefShift(a, 1), a)))))

\* the word h is a value of 32 bits before the next character is taken
RECURSIVE RefFnv(_, _)
RefFnv(h, str) ==
  IF Len(h) # 32 \/ str = <<>> THEN h
  ELSE RefFnv(RefTimesPrime(RefXor(h, Bits(Code(Head(str)), 32))), Tail(str))

\* the number written by the bits, mod n, from the highest bit down
RECURSIVE RefMod(_, _, _)
RefMod(bits, i, n) ==
  IF i = 0 THEN 0 ELSE (2 * RefMod(bits, i - 1, n) + bits[33 - i]) % n

\* the 32 bits of a word kept as <<high 16 bits, low 16 bits>>
WordBits(h) == Bits(h[2], 16) \o Bits(h[1], 16)

\* C30: the hash is the 32-bit FNV-1a of the seed, an unsigned value below
\* 2^32, and the index is that value mod the pool's length
HashIsFnv1a ==
  fnOut # <<>> =>
    LET ref == RefFnv(RefOffset, fnIn.seed)
    IN  /\ fnOut.c[1] \in 0..65535 /\ fnOut.c[2] \in 0..65535
        /\ WordBits(fnOut.c) = ref
        /\ WordBits(fnOut.d) = ref
        /\ fnOut.indexC = RefMod(ref, 32, fnIn.n)
        /\ fnOut.indexB = RefMod(ref, 32, fnIn.n)
        /\ fnOut.indexD = RefMod(ref, 32, fnIn.n)

\* a seed of several characters whose hash has its top bit set, and an
\* index other than 0
HighHashIndexed ==
  /\ fnOut # <<>>
  /\ Len(fnIn.seed) >= 2
  /\ fnOut.c[1] >= 32768
  /\ fnOut.indexC > 0

====
